---------------------------- MODULE Spec2Model ----------------------------
(***************************************************************************)
(* Model of the OpenRouter catalog mirror (src/app.py, src/main.py):       *)
(* the SQLite snapshot store, the two ingestion entry points               *)
(* (rebuild_database, get_openrouter_models) and Model.search.             *)
(*                                                                         *)
(* Text values (identifiers, names, price strings) are sequences of        *)
(* one-character strings so that split, LIKE, CAST and float() can be      *)
(* computed as the code computes them.  Real numbers are fixed-point       *)
(* integers in units of 10^-6.  An optional value is <<>> (None / NULL)    *)
(* or <<v>>.                                                               *)
(*                                                                         *)
(* store  the tables of models.db          last   the most recent call     *)
(* today  the calendar date                marker last_update.txt          *)
(* boot   the date the process started     check  the last freshness check *)
(* hist   history of the freshness checks  rb     a rebuild in progress    *)
(* calc   the last evaluation of a pure helper                             *)
(***************************************************************************)
EXTENDS Integers, Sequences, FiniteSets, TLC

VARIABLES store, last, today, marker, boot, check, hist, rb, calc

vars == <<store, last, today, marker, boot, check, hist, rb, calc>>

-----------------------------------------------------------------------------
(* Optional values, text and numbers *)

None == <<>>

Some(v) == <<v>>

Unit == 10 ^ 6

Real(n) == n * Unit

PerMillion == 1000000

IsDigit(c) == c \in {"0", "1", "2", "3", "4", "5", "6", "7", "8", "9"}

DigitVal(c) ==
  CASE c = "0" -> 0 [] c = "1" -> 1 [] c = "2" -> 2 [] c = "3" -> 3
    [] c = "4" -> 4 [] c = "5" -> 5 [] c = "6" -> 6 [] c = "7" -> 7
    [] c = "8" -> 8 [] c = "9" -> 9

RECURSIVE LeadingDigits(_)
LeadingDigits(s) ==
  IF s = <<>> \/ ~IsDigit(Head(s)) THEN 0 ELSE 1 + LeadingDigits(Tail(s))

RECURSIVE IntValue(_)
IntValue(ds) ==
  IF ds = <<>> THEN 0
  ELSE IntValue(SubSeq(ds, 1, Len(ds) - 1)) * 10 + DigitVal(ds[Len(ds)])

RECURSIVE FracValue(_, _)
FracValue(ds, weight) ==
  IF ds = <<>> \/ weight = 0 THEN 0
  ELSE DigitVal(Head(ds)) * weight + FracValue(Tail(ds), weight \div 10)

\* The decimal literal that is the longest numeric prefix of s:
\* [int digits][. frac digits], as lengths.
NumPrefix(s) ==
  LET i == LeadingDigits(s)
      rest == SubSeq(s, i + 1, Len(s))
      hasDot == rest # <<>> /\ Head(rest) = "."
      f == IF hasDot THEN LeadingDigits(Tail(rest)) ELSE 0
  IN [int |-> i, dot |-> hasDot, frac |-> f,
      len |-> IF i + f = 0 THEN 0 ELSE i + (IF hasDot THEN 1 ELSE 0) + f]

DecimalValue(s) ==
  LET p == NumPrefix(s)
  IN IF p.len = 0 THEN 0
     ELSE IntValue(SubSeq(s, 1, p.int)) * Unit
          + FracValue(SubSeq(s, p.int + 2, p.int + 1 + p.frac), Unit \div 10)

\* SQLite CAST(text AS REAL): the longest numeric prefix, 0.0 when there is none.
CastReal(s) == DecimalValue(s)

RECURSIVE LStrip(_)
LStrip(s) == IF s # <<>> /\ Head(s) = " " THEN LStrip(Tail(s)) ELSE s

RECURSIVE RStrip(_)
RStrip(s) ==
  IF s # <<>> /\ s[Len(s)] = " " THEN RStrip(SubSeq(s, 1, Len(s) - 1)) ELSE s

Strip(s) == RStrip(LStrip(s))

\* Python float(str): the whole text must be a decimal literal, else ValueError.
FloatOk(s) == LET p == NumPrefix(s) IN p.len > 0 /\ p.len = Len(s)

Float(s) == DecimalValue(s)

\* str.split('/')
RECURSIVE Split(_)
Split(s) ==
  LET RECURSIVE FirstSlash(_, _)
      FirstSlash(t, k) ==
        IF k > Len(t) THEN 0 ELSE IF t[k] = "/" THEN k ELSE FirstSlash(t, k + 1)
      k == FirstSlash(s, 1)
  IN IF k = 0 THEN <<s>>
     ELSE <<SubSeq(s, 1, k - 1)>> \o Split(SubSeq(s, k + 1, Len(s)))

Contains(s, c) == \E i \in 1..Len(s) : s[i] = c

Lower(c) ==
  CASE c = "A" -> "a" [] c = "B" -> "b" [] c = "F" -> "f" [] c = "O" -> "o"
    [] c = "Z" -> "z" [] OTHER -> c

\* SQLite  text LIKE pattern : % matches any run of characters, _ any one
\* character, letters match case-insensitively.
RECURSIVE Like(_, _)
Like(text, pat) ==
  IF pat = <<>> THEN text = <<>>
  ELSE IF Head(pat) = "%"
       THEN \E k \in 0..Len(text) : Like(SubSeq(text, k + 1, Len(text)), Tail(pat))
       ELSE /\ text # <<>>
            /\ (Head(pat) = "_" \/ Lower(Head(text)) = Lower(Head(pat)))
            /\ Like(Tail(text), Tail(pat))

-----------------------------------------------------------------------------
(* The upstream catalog *)

MaxEntries == 1

Txt_acme == <<"a", "c", "m", "e">>

Txt_text == <<"t", "e", "x", "t">>

Txt_image == <<"i", "m", "a", "g", "e">>

Id_foo == <<"a", "c", "m", "e", "/", "f", "o", "o">>

Id_bar == <<"a", "c", "m", "e", "/", "b", "a", "r">>

Id_za == <<"z", "/", "a">>

Id_zb == <<"z", "/", "b">>

Id_solo == <<"s", "o", "l", "o">>

P_0 == <<"0">>

P_00 == <<"0", ".", "0">>

P_2 == <<"0", ".", "0", "0", "0", "0", "0", "2">>

P_5 == <<"0", ".", "0", "0", "0", "0", "0", "5">>

\* A sub-object that is present but is not a JSON object (here: a string).
BadObject == [bad |-> TRUE]

Pricing(p, c, r, i) == [prompt |-> p, completion |-> c, request |-> r, image |-> i]

Architecture(ins, outs) == [input_modalities |-> ins, output_modalities |-> outs]

Entry(id, name, ctx, arch, pricing) ==
  [id |-> id, name |-> name, context_length |-> ctx,
   architecture |-> arch, pricing |-> pricing]

E_foo ==
  Entry(Id_foo, <<"F", "o", "o">>, Some(8000),
        Some(Architecture(<<Txt_text>>, <<>>)),
        Some(Pricing(Some(P_2), None, None, None)))

E_bar ==
  Entry(Id_bar, <<"B", "a", "r">>, Some(32000),
        Some(Architecture(<<Txt_text, Txt_image>>, <<Txt_text, Txt_image>>)),
        None)

E_za ==
  Entry(Id_za, <<"Z", "a">>, None, None,
        Some(Pricing(Some(P_0), Some(P_00), Some(P_0), None)))

E_solo ==
  Entry(Id_solo, <<"S", "o", "l", "o">>, Some(32000),
        Some(Architecture(<<Txt_text>>, <<Txt_image>>)),
        Some(Pricing(Some(P_00), Some(P_5), None, Some(P_0))))

E_bad ==
  Entry(Id_zb, <<"Z", "b">>, Some(8000), None, Some(BadObject))

Entries == {E_foo, E_bar, E_za, E_solo}

\* The two-entry fixture catalog.
Fixture == <<E_foo, E_bar>>

\* Upstream catalogs: up to MaxEntries well-formed entries in any order
\* (repeats included), the fixture, and two catalogs with a malformed entry.
Catalogs ==
  UNION {[1..n -> Entries] : n \in 0..MaxEntries}
    \cup {Fixture, <<E_bad>>, <<E_foo, E_bad>>}

\* What httpx.get / raise_for_status / response.json() can produce.
Responses ==
  {[kind |-> k, data |-> <<>>] : k \in {"transport", "status", "badjson"}}
    \cup {[kind |-> "ok", data |-> d] : d \in Catalogs}

\* Where the storage engine fails during one ingestion call, if at all.
Faults == {"none", "open", "insert"}

\* The ingestion calls: any response; a storage fault needs a fetched catalog.
IngestCalls ==
  {<<r, "none">> : r \in Responses}
    \cup {<<[kind |-> "ok", data |-> Fixture], f>> : f \in Faults}

-----------------------------------------------------------------------------
(* The snapshot store (models.db) *)

AppTables == {"models", "input_modalities", "output_modalities", "pricings"}

AllTables ==
  AppTables \cup {"architectures", "top_providers", "per_request_limits",
                  "supported_parameters"}

NoStore ==
  [tables |-> {}, models |-> <<>>, pricings |-> <<>>,
   input_modalities |-> <<>>, output_modalities |-> <<>>]

\* Variant: the tables are forgotten but their rows survive.
DropTables_keep(st) == [st EXCEPT !.tables = @ \ AllTables]

\* DROP TABLE IF EXISTS for each of the eight tables.
DropTables(st) == [NoStore EXCEPT !.tables = st.tables \ AllTables]

CreateTables(st, names) == [st EXCEPT !.tables = @ \cup names]

\* INSERT OR REPLACE on a table whose primary key is the column `key`:
\* a row with an equal, non-NULL key is deleted before the new row is added.
InsertOrReplace(rows, key, row) ==
  LET Differs(r) == r[key] = None \/ r[key] # row[key]
  IN Append(SelectSeq(rows, Differs), row)

\* model_id.split('/')[k] if model_id and '/' in model_id else None
Company(id) ==
  IF id # <<>> /\ Contains(id, "/") THEN Some(Split(id)[1]) ELSE None

ModelName(id) ==
  IF id # <<>> /\ Contains(id, "/") THEN Some(Split(id)[2]) ELSE None

InsertModel(st, e) ==
  LET row == [id |-> Some(e.id), company |-> Company(e.id),
              model |-> ModelName(e.id), name |-> Some(e.name),
              context_length |-> e.context_length]
  IN [st EXCEPT !.models = InsertOrReplace(@, "id", row)]

RECURSIVE AppendModalities(_, _, _)
AppendModalities(rows, id, ms) ==
  IF ms = <<>> THEN rows
  ELSE AppendModalities(
         Append(rows, [id |-> Len(rows) + 1, model_id |-> Some(id),
                       modality |-> Head(ms)]),
         id, Tail(ms))

InsertModalities(st, id, arch) ==
  [st EXCEPT
     !.input_modalities = AppendModalities(@, id, arch.input_modalities),
     !.output_modalities = AppendModalities(@, id, arch.output_modalities)]

InsertPricing(st, id, pr) ==
  LET row == [model_id |-> Some(id), prompt |-> pr.prompt,
              completion |-> pr.completion, request |-> pr.request,
              image |-> pr.image]
  IN [st EXCEPT !.pricings = InsertOrReplace(@, "model_id", row)]

EmptyPricing == Pricing(None, None, None, None)

EmptyArchitecture == Architecture(<<>>, <<>>)

OrElse(opt, default) == IF opt = None THEN default ELSE opt[1]

\* One iteration of the insert loop of rebuild_database.  A sub-object that
\* is not a JSON object has no .get: AttributeError.
AppInsertEntry(st, e) ==
  LET arch == OrElse(e.architecture, EmptyArchitecture)
      pr == OrElse(e.pricing, EmptyPricing)
  IN IF arch = BadObject \/ pr = BadObject
     THEN [ok |-> FALSE, store |-> st]
     ELSE [ok |-> TRUE,
           store |-> InsertPricing(
                       InsertModalities(InsertModel(st, e), e.id, arch),
                       e.id, pr)]

\* One iteration of the loop of insert_models (main.py): children are
\* inserted only for a sub-object that is present and truthy.
MainInsertEntry(st, e) ==
  LET s1 == InsertModel(st, e)
      s2 == IF e.architecture # None
            THEN InsertModalities(s1, e.id, e.architecture[1]) ELSE s1
      s3 == IF e.pricing # None
            THEN InsertPricing(s2, e.id, e.pricing[1]) ELSE s2
  IN IF (e.architecture # None /\ e.architecture[1] = BadObject)
          \/ (e.pricing # None /\ e.pricing[1] = BadObject)
     THEN [ok |-> FALSE, store |-> st]
     ELSE [ok |-> TRUE, store |-> s3]

InsertEntry(path, st, e) ==
  IF path = "app" THEN AppInsertEntry(st, e) ELSE MainInsertEntry(st, e)

\* The insert loop; it stops at the first entry that raises.
RECURSIVE InsertAll(_, _, _)
InsertAll(path, st, data) ==
  IF data = <<>> THEN [ok |-> TRUE, store |-> st]
  ELSE LET r == InsertEntry(path, st, Head(data))
       IN IF r.ok THEN InsertAll(path, r.store, Tail(data)) ELSE r

-----------------------------------------------------------------------------
(* Ingestion: rebuild_database (app.py) and get_openrouter_models (main.py) *)

TablesOf(path) == IF path = "app" THEN AppTables ELSE AllTables

\* Variant: the tables are dropped and recreated before the fetch is checked.
IngestRun_ddlFirst(path, st, resp, fault) ==
  LET fresh == CreateTables(DropTables(st), TablesOf(path))
      ins == InsertAll(path, fresh, resp.data)
  IN CASE resp.kind = "transport" -> [store |-> fresh, exc |-> Some("RequestError")]
       [] resp.kind = "status" -> [store |-> fresh, exc |-> Some("HTTPStatusError")]
       [] resp.kind = "badjson" -> [store |-> st, exc |-> Some("JSONDecodeError")]
       [] fault = "open" -> [store |-> st, exc |-> Some("sqlite3.Error")]
       [] fault = "insert" -> [store |-> fresh, exc |-> Some("sqlite3.Error")]
       [] ~ins.ok -> [store |-> fresh, exc |-> Some("AttributeError")]
       [] OTHER -> [store |-> ins.store, exc |-> None]

\* The body of the try block, up to the first exception.  Python's sqlite3
\* runs DROP/CREATE outside a transaction and opens one at the first INSERT,
\* so a failure during the inserts rolls back to the empty new tables.
IngestRun(path, st, resp, fault) ==
  LET fresh == CreateTables(DropTables(st), TablesOf(path))
      ins == InsertAll(path, fresh, resp.data)
  IN CASE resp.kind = "transport" -> [store |-> st, exc |-> Some("RequestError")]
       [] resp.kind = "status" -> [store |-> st, exc |-> Some("HTTPStatusError")]
       [] resp.kind = "badjson" -> [store |-> st, exc |-> Some("JSONDecodeError")]
       [] fault = "open" -> [store |-> st, exc |-> Some("sqlite3.Error")]
       [] fault = "insert" -> [store |-> fresh, exc |-> Some("sqlite3.Error")]
       [] ~ins.ok -> [store |-> fresh, exc |-> Some("AttributeError")]
       [] OTHER -> [store |-> ins.store, exc |-> None]

NoReq == <<>>

\* The record of the most recent call: what was called, with what, and how
\* it ended.  `again` is history: the call repeats the previous call (same
\* entry point, same upstream response, no storage fault in either).
Outcome(op, status, exc, ret, printed, resp, fault) ==
  [op |-> op, status |-> status, exc |-> exc, ret |-> ret, printed |-> printed,
   resp |-> resp, fault |-> fault, again |-> FALSE,
   req |-> NoReq, query |-> <<>>, params |-> <<>>, rows |-> <<>>,
   conn |-> "none"]

Repeats(prev, cur) ==
  /\ prev.op = cur.op
  /\ prev.resp = cur.resp
  /\ prev.fault = "none" /\ cur.fault = "none"

Success(n) == [kind |-> "success", count |-> n]

Failure(exc) == [kind |-> "error", exc |-> exc]

\* rebuild_database: `except Exception` turns every exception into the
\* returned error string.
RebuildResult(st, resp, fault) ==
  LET run == IngestRun("app", st, resp, fault)
  IN [store |-> run.store,
      last |-> IF run.exc = None
               THEN Outcome("rebuild_database", "returned", None,
                            Some(Success(Len(resp.data))), None, resp, fault)
               ELSE Outcome("rebuild_database", "returned", None,
                            Some(Failure(run.exc[1])), None, resp, fault)]

\* The except clauses of get_openrouter_models.
MainCaught == {"RequestError", "HTTPStatusError", "sqlite3.Error"}

\* get_openrouter_models: returns None; reports by print; an exception
\* outside the three except clauses propagates.
GetModelsResult(st, resp, fault) ==
  LET run == IngestRun("main", st, resp, fault)
  IN [store |-> run.store,
      last |-> IF run.exc = None
               THEN Outcome("get_openrouter_models", "returned", None, None,
                            Some(Success(Len(resp.data))), resp, fault)
               ELSE IF run.exc[1] \in MainCaught
               THEN Outcome("get_openrouter_models", "returned", None, None,
                            Some(Failure(run.exc[1])), resp, fault)
               ELSE Outcome("get_openrouter_models", "raised", run.exc, None,
                            None, resp, fault)]

-----------------------------------------------------------------------------
(* Model.search: the query builder *)

BaseQuery ==
  "SELECT m.*, p.prompt as prompt_price, p.completion as completion_price FROM models m LEFT JOIN pricings p ON m.id = p.model_id"

JoinIm == " JOIN input_modalities im ON m.id = im.model_id"

JoinOm == " JOIN output_modalities om ON m.id = om.model_id"

KwWhere == " WHERE"

KwAnd == " AND"

PredCompany == " m.company = ?"

PredIm == " im.modality = ?"

PredOm == " om.modality = ?"

PredFree ==
  " (COALESCE(p.prompt, '0.0') IN ('0.0', '0') AND COALESCE(p.completion, '0.0') IN ('0.0', '0') AND COALESCE(p.request, '0.0') IN ('0.0', '0') AND COALESCE(p.image, '0.0') IN ('0.0', '0'))"

PredNotFree ==
  " ((p.prompt IS NOT NULL AND p.prompt NOT IN ('0.0', '0')) OR (p.completion IS NOT NULL AND p.completion NOT IN ('0.0', '0')) OR (p.request IS NOT NULL AND p.request NOT IN ('0.0', '0')) OR (p.image IS NOT NULL AND p.image NOT IN ('0.0', '0')))"

PriceExpr(col) ==
  "CASE WHEN " \o col \o " IS NULL OR " \o col
    \o " IN ('0', '0.0') THEN 0 ELSE CAST(" \o col \o " AS REAL) END * 1000000"

PredPriceText(col, operator) == " " \o PriceExpr(col) \o " " \o operator \o " ?"

\* The eight price predicates, built once.
PriceTexts ==
  [c \in {"p.prompt", "p.completion"}, o \in {">=", ">", "<=", "<"} |->
     PredPriceText(c, o)]

PredPrice(col, operator) == PriceTexts[col, operator]

PredName == " m.name LIKE ?"

PredCtx == " m.context_length >= ?"

\* Python truthiness of an optional str / int / bool.
TruthyStr(o) == o # None /\ o[1] # <<>>

TruthyInt(o) == o # None /\ o[1] # 0

TruthyBool(o) == o # None /\ o[1]

\* The query under construction: its text as the sequence of the appended
\* fragments, the bound parameters and the `joins` set.
NewQuery == [text |-> <<BaseQuery>>, params |-> <<>>, joins |-> {}]

\* if "WHERE" not in query  (no other fragment contains the word)
HasWhere(q) == \E i \in 1..Len(q.text) : q.text[i] = KwWhere

Connective(q) == IF ~HasWhere(q) THEN KwWhere ELSE KwAnd

\* Variant: the value is not bound.
AddPredicate_unbound(q, pred, ps) ==
  [q EXCEPT !.text = @ \o <<Connective(q), pred>>]

AddPredicate(q, pred, ps) ==
  [q EXCEPT !.text = @ \o <<Connective(q), pred>>, !.params = @ \o ps]

AddJoin(q, join) == [q EXCEPT !.joins = @ \cup {join}]

PriceColumn(price_type) ==
  LET pt == IF price_type = None \/ price_type[1] \notin {"prompt", "completion"}
            THEN "prompt" ELSE price_type[1]
  IN IF pt = "prompt" THEN "p.prompt" ELSE "p.completion"

BuildQuery(req) ==
  LET q0 == NewQuery
      q1 == IF TruthyStr(req.company)
            THEN AddPredicate(q0, PredCompany, <<req.company[1]>>) ELSE q0
      q2 == IF TruthyStr(req.input_modality)
            THEN AddPredicate(AddJoin(q1, JoinIm), PredIm, <<req.input_modality[1]>>)
            ELSE q1
      q3 == IF TruthyStr(req.output_modality)
            THEN AddPredicate(AddJoin(q2, JoinOm), PredOm, <<req.output_modality[1]>>)
            ELSE q2
      q4 == IF req.is_free # None
            THEN AddPredicate(q3, IF req.is_free[1] THEN PredFree ELSE PredNotFree, <<>>)
            ELSE q3
      col == PriceColumn(req.price_type)
      q5 == IF req.min_price # None
            THEN AddPredicate(q4,
                   PredPrice(col, IF TruthyBool(req.min_price_inclusive) THEN ">=" ELSE ">"),
                   <<req.min_price[1]>>)
            ELSE q4
      q6 == IF req.max_price # None
            THEN AddPredicate(q5,
                   PredPrice(col, IF TruthyBool(req.max_price_inclusive) THEN "<=" ELSE "<"),
                   <<req.max_price[1]>>)
            ELSE q5
      q7 == IF TruthyStr(req.name_like)
            THEN AddPredicate(q6, PredName, <<(<<"%">> \o req.name_like[1] \o <<"%">>)>>)
            ELSE q6
      q8 == IF TruthyInt(req.min_context_length)
            THEN AddPredicate(q7, PredCtx, <<req.min_context_length[1]>>)
            ELSE q7
  IN q8

\* final_query = query : the collected joins are not added to the text.
FinalQuery(q) == q.text

-----------------------------------------------------------------------------
(* Model.search: executing the query (what SQLite does with the text) *)

PriceColumns == {"p.prompt", "p.completion"}

Operators == {">=", ">", "<=", "<"}

PricePreds == {PredPrice(c, o) : c \in PriceColumns, o \in Operators}

Predicates ==
  {PredCompany, PredIm, PredOm, PredFree, PredNotFree, PredName, PredCtx}
    \cup PricePreds

Joins == {JoinIm, JoinOm}

\* The relation alias a predicate refers to besides m and p, if any.
AliasesOf(pred) ==
  IF pred = PredIm THEN {"im"} ELSE IF pred = PredOm THEN {"om"} ELSE {}

\* The aliases the text introduces.
JoinAliases(text) ==
  {"m", "p"} \cup (IF \E i \in 1..Len(text) : text[i] = JoinIm THEN {"im"} ELSE {})
             \cup (IF \E i \in 1..Len(text) : text[i] = JoinOm THEN {"om"} ELSE {})

PredsOf(text) == SelectSeq(text, LAMBDA t : t \in Predicates)

NumJoins(text) == Len(SelectSeq(text, LAMBDA t : t \in Joins))

Placeholders(pred) == IF pred \in {PredFree, PredNotFree} THEN 0 ELSE 1

RECURSIVE SumPlaceholders(_)
SumPlaceholders(preds) ==
  IF preds = <<>> THEN 0
  ELSE Placeholders(Head(preds)) + SumPlaceholders(Tail(preds))

\* The grammar: base, joins, then nothing or WHERE pred (AND pred)*.
Parses(text) ==
  LET nj == NumJoins(text)
      rest == SubSeq(text, 2 + nj, Len(text))
  IN /\ Len(text) >= 1 /\ text[1] = BaseQuery
     /\ \A i \in 2..(1 + nj) : text[i] \in Joins
     /\ Len(rest) % 2 = 0
     /\ \A i \in 1..Len(rest) :
          IF i % 2 = 0 THEN rest[i] \in Predicates
          ELSE rest[i] = (IF i = 1 THEN KwWhere ELSE KwAnd)

NullPricing == [model_id |-> None, prompt |-> None, completion |-> None,
                request |-> None, image |-> None]

\* Variant: an inner join, which drops an entry without a Pricing row.
LeftJoinPricing_inner(st) ==
  LET RowsFor(m) ==
        LET hit == SelectSeq(st.pricings,
                     LAMBDA p : m.id # None /\ p.model_id # None /\ p.model_id = m.id)
        IN [i \in 1..Len(hit) |-> [m |-> m, p |-> hit[i]]]
      RECURSIVE Go(_)
      Go(ms) == IF ms = <<>> THEN <<>> ELSE RowsFor(Head(ms)) \o Go(Tail(ms))
  IN Go(st.models)

\* models m LEFT JOIN pricings p ON m.id = p.model_id
LeftJoinPricing(st) ==
  LET RowsFor(m) ==
        LET hit == SelectSeq(st.pricings,
                     LAMBDA p : m.id # None /\ p.model_id # None /\ p.model_id = m.id)
        IN IF hit = <<>> THEN <<[m |-> m, p |-> NullPricing]>>
           ELSE [i \in 1..Len(hit) |-> [m |-> m, p |-> hit[i]]]
      RECURSIVE Go(_)
      Go(ms) == IF ms = <<>> THEN <<>> ELSE RowsFor(Head(ms)) \o Go(Tail(ms))
  IN Go(st.models)

\* rows JOIN <table> x ON m.id = x.model_id
InnerJoin(rows, table, alias) ==
  LET RowsFor(j) ==
        LET hit == SelectSeq(table,
                     LAMBDA x : j.m.id # None /\ x.model_id # None /\ x.model_id = j.m.id)
        IN [i \in 1..Len(hit) |->
              [a \in DOMAIN j \cup {alias} |-> IF a = alias THEN hit[i] ELSE j[a]]]
      RECURSIVE Go(_)
      Go(js) == IF js = <<>> THEN <<>> ELSE RowsFor(Head(js)) \o Go(Tail(js))
  IN Go(rows)

FromClause(st, text) ==
  LET r0 == LeftJoinPricing(st)
      r1 == IF "im" \in JoinAliases(text)
            THEN InnerJoin(r0, st.input_modalities, "im") ELSE r0
      r2 == IF "om" \in JoinAliases(text)
            THEN InnerJoin(r1, st.output_modalities, "om") ELSE r1
  IN r2

ZeroTexts == {P_0, P_00}

Column(j, col) ==
  CASE col = "p.prompt" -> j.p.prompt
    [] col = "p.completion" -> j.p.completion
    [] col = "p.request" -> j.p.request
    [] col = "p.image" -> j.p.image

FourColumns == {"p.prompt", "p.completion", "p.request", "p.image"}

\* Variant: only the prompt column is tested.
IsFreeRow_promptOnly(j) == OrElse(Column(j, "p.prompt"), P_00) \in ZeroTexts

\* COALESCE(col, '0.0') IN ('0.0', '0') for the four columns.

IsFreeRow(j) ==
  \A col \in FourColumns : OrElse(Column(j, col), P_00) \in ZeroTexts

\* (col IS NOT NULL AND col NOT IN ('0.0', '0')) OR ... for the four columns.
IsNotFreeRow(j) ==
  \E col \in FourColumns :
    Column(j, col) # None /\ Column(j, col)[1] \notin ZeroTexts

\* CASE WHEN col IS NULL OR col IN ('0', '0.0') THEN 0
\*      ELSE CAST(col AS REAL) END * 1000000
PriceValue(v) ==
  (IF v = None \/ v[1] \in ZeroTexts THEN 0 ELSE CastReal(v[1])) * PerMillion

\* Variant: the inclusive lower bound compares strictly.
Compare_strict(a, operator, b) ==
  CASE operator = ">=" -> a > b
    [] operator = ">" -> a > b
    [] operator = "<=" -> a <= b
    [] operator = "<" -> a < b

Compare(a, operator, b) ==
  CASE operator = ">=" -> a >= b
    [] operator = ">" -> a > b
    [] operator = "<=" -> a <= b
    [] operator = "<" -> a < b

\* Whether the predicate evaluates to TRUE (not FALSE, not NULL) on a row.
PredHolds(pred, j, param) ==
  CASE pred = PredCompany -> j.m.company # None /\ j.m.company[1] = param
    [] pred = PredIm -> j.im.modality = param
    [] pred = PredOm -> j.om.modality = param
    [] pred = PredFree -> IsFreeRow(j)
    [] pred = PredNotFree -> IsNotFreeRow(j)
    [] pred = PredName -> j.m.name # None /\ Like(j.m.name[1], param)
    [] pred = PredCtx -> j.m.context_length # None /\ j.m.context_length[1] >= param
    [] pred \in PricePreds ->
         LET col == CHOOSE c \in PriceColumns : \E o \in Operators : pred = PredPrice(c, o)
             op == CHOOSE o \in Operators : pred = PredPrice(col, o)
         IN Compare(PriceValue(Column(j, col)), op, param)

RECURSIVE WhereHolds(_, _, _)
WhereHolds(preds, j, params) ==
  IF preds = <<>> THEN TRUE
  ELSE LET n == Placeholders(Head(preds))
       IN /\ PredHolds(Head(preds), j, IF n = 1 THEN params[1] ELSE <<>>)
          /\ WhereHolds(Tail(preds), j, SubSeq(params, n + 1, Len(params)))

\* dict(row) for  m.*, p.prompt as prompt_price, p.completion as completion_price
Project(j) ==
  [id |-> j.m.id, company |-> j.m.company, model |-> j.m.model,
   name |-> j.m.name, context_length |-> j.m.context_length,
   prompt_price |-> j.p.prompt, completion_price |-> j.p.completion]

\* cursor.execute(final_query, params); cursor.fetchall()
Execute(st, text, params) ==
  IF ~({"models", "pricings"} \subseteq st.tables)
       \/ ("im" \in JoinAliases(text) /\ "input_modalities" \notin st.tables)
       \/ ("om" \in JoinAliases(text) /\ "output_modalities" \notin st.tables)
    THEN [exc |-> Some("sqlite3.OperationalError"), rows |-> <<>>]
  ELSE IF ~Parses(text)
    THEN [exc |-> Some("sqlite3.OperationalError"), rows |-> <<>>]
  ELSE IF \E i \in 1..Len(text) : ~(AliasesOf(text[i]) \subseteq JoinAliases(text))
    THEN [exc |-> Some("sqlite3.OperationalError"), rows |-> <<>>]
  ELSE IF SumPlaceholders(PredsOf(text)) # Len(params)
    THEN [exc |-> Some("sqlite3.ProgrammingError"), rows |-> <<>>]
  ELSE LET preds == PredsOf(text)
           hits == SelectSeq(FromClause(st, text),
                     LAMBDA j : WhereHolds(preds, j, params))
       IN [exc |-> None, rows |-> [i \in 1..Len(hits) |-> Project(hits[i])]]

-----------------------------------------------------------------------------
(* Model.search: the result normaliser and the whole call *)

\* Variant: the price is not scaled to per-million-token units.
NormalizePrice_noScale(v) ==
  IF v = None THEN None
  ELSE LET price_str == Strip(v[1])
       IN IF price_str \in {<<>>, P_0, P_00} THEN Some(0)
          ELSE IF FloatOk(price_str) THEN Some(Float(price_str))
          ELSE None

\* The price conversion of the result loop; None stays None, and a text
\* float() rejects becomes None.
NormalizePrice(v) ==
  IF v = None THEN None
  ELSE LET price_str == Strip(v[1])
       IN IF price_str \in {<<>>, P_0, P_00} THEN Some(0)
          ELSE IF FloatOk(price_str) THEN Some(Float(price_str) * PerMillion)
          ELSE None

ToModel(row) ==
  [row EXCEPT !.prompt_price = NormalizePrice(@),
              !.completion_price = NormalizePrice(@)]

\* The connection of the search when the search is left: conn.close() follows
\* cursor.execute and fetchall with no try/finally, so it runs only when
\* neither raised.
ConnAfter(exc) == IF exc = None THEN "closed" ELSE "open"

\* Model.search has no exception handler: an error of cursor.execute
\* propagates to the caller.
\* What a search that built q and got r from the execution leaves.
SearchOutcome(req, q, r) ==
  [op |-> "search",
   status |-> IF r.exc = None THEN "returned" ELSE "raised",
   exc |-> r.exc, ret |-> None, printed |-> None,
   resp |-> [kind |-> "none", data |-> <<>>], fault |-> "none",
   again |-> FALSE,
   req |-> Some(req), query |-> FinalQuery(q), params |-> q.params,
   rows |-> [i \in 1..Len(r.rows) |-> ToModel(r.rows[i])],
   conn |-> ConnAfter(r.exc)]

\* The query is built once and executed once.
SearchResult(st, req) ==
  LET Ran(q) == {SearchOutcome(req, q, r) : r \in {Execute(st, FinalQuery(q), q.params)}}
  IN CHOOSE out \in UNION {Ran(q) : q \in {BuildQuery(req)}} : TRUE

Request(co, im, om, fr, nm, cx, pt, lo, hi, loInc, hiInc) ==
  [company |-> co, input_modality |-> im, output_modality |-> om,
   is_free |-> fr, name_like |-> nm, min_context_length |-> cx,
   price_type |-> pt, min_price |-> lo, max_price |-> hi,
   min_price_inclusive |-> loInc, max_price_inclusive |-> hiInc]

Flags == {Some(TRUE), Some(FALSE)}

PriceTypes == {None, Some("prompt"), Some("completion"), Some("bogus")}

\* Requests that combine the presence of the filters, with the defaults of
\* search_models_api for the rest.
PresenceRequests ==
  {Request(co, im, om, fr, None, None, Some("prompt"), lo, hi, Some(TRUE), Some(FALSE)) :
     co \in {None, Some(Txt_acme)},
     im \in {None, Some(Txt_image)},
     om \in {None, Some(Txt_image)},
     fr \in {None, Some(TRUE)},
     lo \in {None, Some(Real(2))},
     hi \in {None, Some(Real(5))}}

\* Requests that set only the free / non-free filter.
FreeRequests ==
  {Request(None, None, None, Some(fr), None, None, Some("prompt"), None, None, loInc, hiInc) :
     fr \in BOOLEAN, loInc \in Flags, hiInc \in Flags}

\* Requests that set only the price filters.
PriceRequests ==
  {Request(None, None, None, None, None, None, pt, lo, hi, loInc, hiInc) :
     pt \in PriceTypes,
     lo \in {None, Some(Real(2))},
     hi \in {None, Some(Real(5))},
     loInc \in Flags,
     hiInc \in Flags}
    \ {Request(None, None, None, None, None, None, pt, None, None, loInc, hiInc) :
         pt \in PriceTypes \ {Some("prompt")}, loInc \in Flags, hiInc \in Flags}

\* Requests that set the name and context-length filters.
NameRequests ==
  {Request(co, None, None, None, nm, cx, Some("prompt"), None, None, Some(TRUE), Some(FALSE)) :
     co \in {None, Some(<<>>)},
     nm \in {None, Some(<<"o">>), Some(<<>>)},
     cx \in {None, Some(10000), Some(0)}}

\* Requests that differ only in the values of the filters they set.
ValueRequests ==
  {Request(co, None, None, None, nm, cx, Some("prompt"), lo, None, Some(TRUE), Some(FALSE)) :
     co \in {Some(Txt_acme), Some(<<"z">>)},
     nm \in {None, Some(<<"o">>), Some(<<"a">>)},
     cx \in {None, Some(8000)},
     lo \in {None, Some(Real(2)), Some(Real(5))}}

Requests == PresenceRequests \cup FreeRequests \cup PriceRequests \cup NameRequests

-----------------------------------------------------------------------------
(* The state machine *)

NoCall ==
  Outcome("none", "none", None, None, None, [kind |-> "none", data |-> <<>>], "none")

MaxDate == 2

Dates == 1..MaxDate

NoCheck == [start |-> 0, end |-> 0, found |-> None, ran |-> FALSE, ok |-> FALSE,
            prior |-> FALSE, priorFailed |-> FALSE]

NoHist == [calls |-> [d \in Dates |-> 0], ranOn |-> {}, failedOn |-> {}, okOn |-> {}]

\* No rebuild in progress (pc = 0).  The other fields are history: the
\* response and the store the last started rebuild began with, whether the
\* store is the product of a successful rebuild, whether the last search ran
\* during a rebuild, and what the searches during rebuilds have observed.
NoRebuild ==
  [pc |-> 0, resp |-> [kind |-> "none", data |-> <<>>], pre |-> NoStore,
   done |-> FALSE, obs |-> "none", sawDropped |-> FALSE, sawEmpty |-> FALSE]

NoCalc == [op |-> "none"]

freshVars == <<today, marker, boot, check, hist>>

Init ==
  /\ store = NoStore
  /\ last = NoCall
  /\ today = 1
  /\ marker = None
  /\ boot = 0
  /\ check = NoCheck
  /\ hist = NoHist
  /\ rb = NoRebuild
  /\ calc = NoCalc

RebuildDatabase ==
  /\ \E c \in IngestCalls :
       LET r == RebuildResult(store, c[1], c[2])
       IN /\ store' = r.store
          /\ last' = [r.last EXCEPT !.again = Repeats(last, r.last)]
  /\ UNCHANGED <<freshVars, rb, calc>>

GetOpenrouterModels ==
  /\ \E c \in IngestCalls :
       LET r == GetModelsResult(store, c[1], c[2])
       IN /\ store' = r.store
          /\ last' = [r.last EXCEPT !.again = Repeats(last, r.last)]
  /\ UNCHANGED <<freshVars, rb, calc>>

Search ==
  /\ \E req \in Requests :
       /\ last' = SearchResult(store, req)
       /\ UNCHANGED store
  /\ UNCHANGED <<freshVars, rb, calc>>

Next == RebuildDatabase \/ GetOpenrouterModels \/ Search

Spec == Init /\ [][Next]_vars

-----------------------------------------------------------------------------
(* The freshness policy: daily_update_database, run at import of app.py *)

\* The searches served while the freshness policy is observed.
ServeRequests ==
  {r \in PresenceRequests :
     /\ r.input_modality = None /\ r.output_modality = None
     /\ r.min_price = None /\ r.max_price = None}

\* os.path.exists(update_flag_file) and last_update == today's date
UpToDate_never(m, d) == FALSE

UpToDate(m, d) == m # None /\ m[1] = d

\* Variant: the marker is written only after a successful ingestion.
MarkerAfter_onSuccess(found, ok, d) == IF ok THEN Some(d) ELSE found

\* file.write(datetime.now().strftime("%Y-%m-%d")), after rebuild_database
\* returned, whatever it returned.
MarkerAfter(found, ok, d) == Some(d)

Bump(n) == IF n >= 2 THEN 2 ELSE n + 1

\* The call succeeded: the success message was returned (rebuild_database)
\* or printed (get_openrouter_models).
Succeeded(call) ==
  /\ call.status = "returned"
  /\ IF call.op = "rebuild_database"
     THEN call.ret # None /\ call.ret[1].kind = "success"
     ELSE call.printed # None /\ call.printed[1].kind = "success"

\* daily_update_database.  The date is read twice, before the ingestion and
\* when the marker is written; midnight may pass in between.
DailyUpdateDatabase ==
  IF UpToDate(marker, today)
  THEN /\ check' = [start |-> today, end |-> today, found |-> marker,
                    ran |-> FALSE, ok |-> FALSE, prior |-> today \in hist.ranOn,
                    priorFailed |-> today \in hist.failedOn]
       /\ hist' = [hist EXCEPT !.ranOn = @ \cup {today}]
       /\ UNCHANGED <<store, last, today, marker>>
  ELSE \E c \in IngestCalls, d \in {today, today + 1} \cap Dates :
       \E r \in {RebuildResult(store, c[1], c[2])} : \E ok \in {Succeeded(r.last)} :
            /\ store' = r.store
            /\ last' = [r.last EXCEPT !.again = Repeats(last, r.last)]
            /\ today' = d
            /\ marker' = MarkerAfter(marker, ok, d)
            /\ check' = [start |-> today, end |-> d, found |-> marker,
                         ran |-> TRUE, ok |-> ok, prior |-> today \in hist.ranOn,
                         priorFailed |-> today \in hist.failedOn]
            /\ hist' = [calls |-> [hist.calls EXCEPT ![today] = Bump(@)],
                        ranOn |-> hist.ranOn \cup {today, d},
                        failedOn |-> IF ok THEN hist.failedOn
                                     ELSE hist.failedOn \cup {d},
                        okOn |-> IF ok THEN hist.okOn \cup {today, d}
                                 ELSE hist.okOn]

\* A start of the server process: importing app.py runs the check once.
\* Nothing schedules periodic_database_update, so no other step runs it.
Startup ==
  /\ boot' = today
  /\ DailyUpdateDatabase
  /\ UNCHANGED <<rb, calc>>

\* Midnight passes.
Tick ==
  /\ today < MaxDate
  /\ today' = today + 1
  /\ UNCHANGED <<store, last, marker, boot, check, hist, rb, calc>>

\* The running process serves a search; the freshness state is not read.
Serve ==
  /\ boot # 0
  /\ \E req \in ServeRequests : last' = SearchResult(store, req)
  /\ UNCHANGED <<store, freshVars, rb, calc>>

NextFresh == Startup \/ Tick \/ Serve

SpecFresh == Init /\ [][NextFresh]_vars

\* Time passes and the running process keeps serving requests; a restart
\* is not guaranteed.
FairFresh == SpecFresh /\ WF_vars(Tick) /\ WF_vars(Serve)

-----------------------------------------------------------------------------
(* rebuild_database statement by statement, with concurrent searches *)

\* The statements of rebuild_database on the tables a search reads, in
\* program order.  Python's sqlite3 commits each DROP and CREATE at once.
Statements ==
  <<[op |-> "drop", table |-> "models"],
    [op |-> "drop", table |-> "input_modalities"],
    [op |-> "drop", table |-> "output_modalities"],
    [op |-> "drop", table |-> "pricings"],
    [op |-> "create", table |-> "models"],
    [op |-> "create", table |-> "input_modalities"],
    [op |-> "create", table |-> "output_modalities"],
    [op |-> "create", table |-> "pricings"]>>

CommitPc == Len(Statements) + 1

ApplyStatement(st, stmt) ==
  IF stmt.op = "drop"
  THEN [st EXCEPT !.tables = @ \ {stmt.table}, ![stmt.table] = <<>>]
  ELSE [st EXCEPT !.tables = @ \cup {stmt.table}]

\* Variant: the inserts are committed one entry short.
RbCommit_short(st, data) ==
  IF data = <<>> THEN InsertAll("app", st, data)
  ELSE InsertAll("app", st, Tail(data))

\* The insert loop and conn.commit(): the rows become visible together, or
\* not at all when an entry raises.
RbCommit(st, data) == InsertAll("app", st, data)

\* The searches that run next to a rebuild.
ConcRequests == ServeRequests

\* The snapshot a rebuild that began with store `pre` and fetched `resp`
\* leaves when it runs alone.
PostSnapshot(pre, resp) == RebuildResult(pre, resp, "none").store

\* The fetch.  A failed fetch ends the call with the error string.
RbStart ==
  /\ rb.pc = 0
  /\ \E resp \in Responses :
       IF resp.kind = "ok"
       THEN /\ rb' = [rb EXCEPT !.pc = 1, !.resp = resp, !.pre = store,
                                !.done = FALSE, !.obs = "none",
                                !.sawDropped = FALSE, !.sawEmpty = FALSE]
            /\ UNCHANGED <<store, last>>
       ELSE /\ last' = RebuildResult(store, resp, "none").last
            /\ UNCHANGED <<store, rb>>
  /\ UNCHANGED <<freshVars, calc>>

\* One DROP TABLE or CREATE TABLE.
RbStep ==
  /\ rb.pc \in 1..Len(Statements)
  /\ store' = ApplyStatement(store, Statements[rb.pc])
  /\ rb' = [rb EXCEPT !.pc = @ + 1]
  /\ UNCHANGED <<last, freshVars, calc>>

\* The inserts, the commit and the return.
RbFinish ==
  /\ rb.pc = CommitPc
  /\ LET ins == RbCommit(store, rb.resp.data)
     IN /\ store' = IF ins.ok THEN ins.store ELSE store
        /\ last' = Outcome("rebuild_database", "returned", None,
                           Some(IF ins.ok THEN Success(Len(rb.resp.data))
                                ELSE Failure("AttributeError")),
                           None, rb.resp, "none")
        /\ rb' = [rb EXCEPT !.pc = 0, !.done = ins.ok]
  /\ UNCHANGED <<freshVars, calc>>

\* A rebuild is in progress that began with a complete, non-empty snapshot
\* and fetched a non-empty catalog.
MidRebuild ==
  /\ rb.pc # 0
  /\ AppTables \subseteq rb.pre.tables /\ rb.pre.models # <<>>
  /\ rb.resp.data # <<>>

\* Some table the search reads is dropped and not yet recreated.
TablesDropped(st) == ~(AppTables \subseteq st.tables)

\* The tables are recreated and not yet populated.
TablesEmpty(st) == AppTables \subseteq st.tables /\ st.models = <<>>

\* A whole search, between two statements of a rebuild or with none running.
ConcSearch ==
  /\ \E req \in ConcRequests : \E r \in {SearchResult(store, req)} :
          /\ last' = r
          /\ rb' = [rb EXCEPT
                      !.obs = IF rb.pc # 0 THEN "during" ELSE "quiet",
                      !.sawDropped = @ \/ (MidRebuild /\ TablesDropped(store)
                                             /\ r.status = "raised"),
                      !.sawEmpty = @ \/ (MidRebuild /\ TablesEmpty(store)
                                           /\ r.status = "returned")]
  /\ UNCHANGED <<store, freshVars, calc>>

NextConc == RbStart \/ RbStep \/ RbFinish \/ ConcSearch

SpecConc == Init /\ [][NextConc]_vars

-----------------------------------------------------------------------------
(* The pure helpers, evaluated on enumerated inputs *)

MaxIdLen == 5

MaxPriceLen == 5

TextsOver(alphabet, n) == UNION {[1..k -> alphabet] : k \in 0..n}

\* model_data.get('id'): absent, or a text of letters and slashes.
IdInputs == {None} \cup {Some(t) : t \in TextsOver({"a", "/"}, MaxIdLen)}

\* A stored price: NULL, or a text written with zeros and points, or one of
\* the two non-zero prices of the catalog.
PriceInputs ==
  {None} \cup {Some(t) : t \in TextsOver({"0", "."}, MaxPriceLen) \cup {P_2, P_5}}

CompanyOf(id) == IF id = None THEN None ELSE Company(id[1])

ModelNameOf(id) == IF id = None THEN None ELSE ModelName(id[1])

\* A joined row whose four price columns hold v.
PriceRow(v) == [p |-> Pricing(v, v, v, v)]

\* The derivation of company and model from an identifier.
EvalSplit ==
  /\ \E id \in IdInputs :
       calc' = [op |-> "split", id |-> id, company |-> CompanyOf(id),
                model |-> ModelNameOf(id)]
  /\ UNCHANGED <<store, last, freshVars, rb>>

\* The three classifications of a stored price: by the is_free predicate,
\* by the price expression of the range filter and by the normaliser.
EvalPrice ==
  /\ \E v \in PriceInputs :
       calc' = [op |-> "price", value |-> v, free |-> IsFreeRow(PriceRow(v)),
                filter |-> PriceValue(v), normal |-> NormalizePrice(v)]
  /\ UNCHANGED <<store, last, freshVars, rb>>

\* The query builder of Model.search, on the requests of the searches and on
\* requests that differ only in their values.
EvalBuild ==
  /\ \E req \in Requests \cup ValueRequests :
       LET q == BuildQuery(req)
       IN calc' = [op |-> "build", req |-> req, query |-> FinalQuery(q),
                   params |-> q.params]
  /\ UNCHANGED <<store, last, freshVars, rb>>

NextPure == EvalSplit \/ EvalPrice \/ EvalBuild

SpecPure == Init /\ [][NextPure]_vars

-----------------------------------------------------------------------------
(* Vocabulary of the properties *)

IngestOps == {"rebuild_database", "get_openrouter_models"}

\* The store holds a snapshot: the tables the search reads exist.
HasSnapshot == {"models", "pricings"} \subseteq store.tables

Searched == last.op = "search" /\ HasSnapshot

Req == last.req[1]

\* The identifiers of a sequence of rows.
IdsOf(rows) == {rows[i].id : i \in 1..Len(rows)}

Occurrences(rows, id) == Cardinality({i \in 1..Len(rows) : rows[i].id = id})

\* The result holds exactly the entries of `ids`, each once.
ReturnsExactly(ids) ==
  /\ last.status = "returned"
  /\ IdsOf(last.rows) = ids
  /\ \A id \in ids : Occurrences(last.rows, id) = 1

\* The Pricing row of an entry, if it has one.
PricingRows(id) == {i \in 1..Len(store.pricings) : store.pricings[i].model_id = id}

HasPricingRow(id) == PricingRows(id) # {}

\* The stored value of a price column of an entry: NULL without a Pricing row.
Stored(id, col) ==
  IF ~HasPricingRow(id) THEN None
  ELSE LET p == store.pricings[CHOOSE i \in PricingRows(id) : TRUE]
       IN CASE col = "prompt" -> p.prompt
            [] col = "completion" -> p.completion
            [] col = "request" -> p.request
            [] col = "image" -> p.image

ZeroEquivalent(v) == v = None \/ v[1] = <<"0">> \/ v[1] = <<"0", ".", "0">>

NoFilter(r) ==
  /\ r.company = None /\ r.input_modality = None /\ r.output_modality = None
  /\ r.is_free = None /\ r.name_like = None /\ r.min_context_length = None
  /\ r.min_price = None /\ r.max_price = None

OnlyFree(r) == r.is_free # None /\ NoFilter([r EXCEPT !.is_free = None])

OnlyPrice(r) ==
  /\ r.min_price # None \/ r.max_price # None
  /\ NoFilter([r EXCEPT !.min_price = None, !.max_price = None])

OnlyModality(r) ==
  /\ r.input_modality # None \/ r.output_modality # None
  /\ NoFilter([r EXCEPT !.input_modality = None, !.output_modality = None])

CountOf(text, token) == Cardinality({i \in 1..Len(text) : text[i] = token})

-----------------------------------------------------------------------------
(* Properties *)

\* C1: for every combination of present and absent filters, over a freshly
\* rebuilt store, the executed query has one WHERE exactly when a predicate
\* was appended, its predicates are joined by AND, every relation alias a
\* predicate refers to is introduced by a join of the executed text, and
\* the execution ends with a result list, not with a storage error.
C1_WellFormedQuery ==
  Searched =>
    /\ CountOf(last.query, KwWhere) = (IF PredsOf(last.query) = <<>> THEN 0 ELSE 1)
    /\ CountOf(last.query, KwAnd) =
         (IF PredsOf(last.query) = <<>> THEN 0 ELSE Len(PredsOf(last.query)) - 1)
    /\ Parses(last.query)
    /\ \A i \in 1..Len(last.query) :
         AliasesOf(last.query[i]) \subseteq JoinAliases(last.query)
    /\ last.status = "returned"

\* C2: a search with no filter set returns every entry of the snapshot
\* exactly once, whether or not the entry has a Pricing row.
C2_NoFilterReturnsAll ==
  (Searched /\ NoFilter(Req)) =>
    /\ ReturnsExactly(IdsOf(store.models))
    /\ Len(last.rows) = Len(store.models)

C2_Witness ==
  /\ Searched /\ NoFilter(Req) /\ last.status = "returned"
  /\ Len(store.models) = 2
  /\ \E i \in 1..Len(store.models) : ~HasPricingRow(store.models[i].id)
  /\ \E i \in 1..Len(store.models) : HasPricingRow(store.models[i].id)

\* An entry is free when its four price columns prompt, completion, request
\* and image are each NULL, "0" or "0.0" (a missing Pricing row is four NULLs).
FreeEntry(id) ==
  \A col \in {"prompt", "completion", "request", "image"} :
    ZeroEquivalent(Stored(id, col))

FreeIds == {id \in IdsOf(store.models) : FreeEntry(id)}

\* C3: search(is_free=true) returns exactly the free entries and
\* search(is_free=false) exactly the others, so the two results are disjoint
\* and together are the whole snapshot.
C3_FreeFilterPartitions ==
  (Searched /\ OnlyFree(Req)) =>
    IF Req.is_free[1] THEN ReturnsExactly(FreeIds)
    ELSE ReturnsExactly(IdsOf(store.models) \ FreeIds)

C3_Witness ==
  /\ Searched /\ OnlyFree(Req) /\ last.status = "returned"
  /\ FreeIds # {} /\ FreeIds # IdsOf(store.models)
  /\ \E id \in FreeIds : HasPricingRow(id)

\* C4: in every row a search returns, a prompt or completion price stored
\* as "0", "0.0" or NULL (a missing Pricing row included) is emitted as the
\* number 0.0, never as None.
C4_ZeroPriceIsZero ==
  (Searched /\ last.status = "returned") =>
    \A i \in 1..Len(last.rows) :
      /\ ZeroEquivalent(Stored(last.rows[i].id, "prompt"))
           => last.rows[i].prompt_price = Some(0)
      /\ ZeroEquivalent(Stored(last.rows[i].id, "completion"))
           => last.rows[i].completion_price = Some(0)

\* The price, in dollars per million tokens, that a stored price text stands
\* for: 0 for NULL, "0" and "0.0", otherwise its decimal value times 1,000,000.
PerMillionOf(v) ==
  CASE ZeroEquivalent(v) -> 0
    [] v # None /\ v[1] = <<"0", ".", "0", "0", "0", "0", "0", "2">> -> Real(2)
    [] v # None /\ v[1] = <<"0", ".", "0", "0", "0", "0", "0", "5">> -> Real(5)

\* The column a price_type selects: completion for "completion", else prompt.
SelectedColumn(r) ==
  IF r.price_type = Some("completion") THEN "completion" ELSE "prompt"

WithinBounds(r, value) ==
  /\ r.min_price # None =>
       IF r.min_price_inclusive = Some(TRUE)
       THEN value >= r.min_price[1] ELSE value > r.min_price[1]
  /\ r.max_price # None =>
       IF r.max_price_inclusive = Some(TRUE)
       THEN value <= r.max_price[1] ELSE value < r.max_price[1]

PricedWithin(r) ==
  {id \in IdsOf(store.models) :
     WithinBounds(r, PerMillionOf(Stored(id, SelectedColumn(r))))}

\* C5: with min_price and/or max_price set, the search returns exactly the
\* entries whose selected price (0 when NULL, "0" or "0.0", else the stored
\* value times 1,000,000) satisfies each supplied bound, inclusively or
\* strictly as the bound's flag says.
C5_PriceRange ==
  (Searched /\ OnlyPrice(Req)) => ReturnsExactly(PricedWithin(Req))

\* An entry whose price equals the lower bound, under both flags, with a
\* result that keeps some entries and drops others.
C5_Witness ==
  /\ Searched /\ OnlyPrice(Req) /\ last.status = "returned"
  /\ Req.min_price # None
  /\ \E id \in IdsOf(store.models) :
       PerMillionOf(Stored(id, SelectedColumn(Req))) = Req.min_price[1]
  /\ Len(last.rows) = 1 /\ Len(store.models) = 2

\* The store holds the fixture: acme/foo and acme/bar, ingested by either
\* entry point.
FixtureIngested ==
  /\ HasSnapshot
  /\ IdsOf(store.models) = {Some(Id_foo), Some(Id_bar)}
  /\ Stored(Some(Id_foo), "prompt") = Some(P_2)
  /\ Stored(Some(Id_bar), "prompt") = None

\* search(price_type="prompt", max_price=5, max_price_inclusive=true)
MaxFiveRequest(r) ==
  /\ OnlyPrice(r) /\ r.price_type = Some("prompt")
  /\ r.min_price = None /\ r.max_price = Some(Real(5))
  /\ r.max_price_inclusive = Some(TRUE)

PromptPriceOf(id) ==
  {last.rows[i].prompt_price : i \in {k \in 1..Len(last.rows) : last.rows[k].id = id}}

Declaring(table, modality) ==
  {table[i].model_id : i \in {k \in 1..Len(table) : table[k].modality = modality}}

ExpectedByModality(r) ==
  (IF r.input_modality = None THEN IdsOf(store.models)
   ELSE Declaring(store.input_modalities, r.input_modality[1]))
    \cap (IF r.output_modality = None THEN IdsOf(store.models)
          ELSE Declaring(store.output_modalities, r.output_modality[1]))

\* C7: the executed query inner-joins the input (resp. output) modality
\* relation exactly once when that filter is supplied and not at all when it
\* is not, and the search returns exactly the entries that declare the
\* modality; on the fixture, search(input_modality="image") returns only bar.
C7_ModalityJoin ==
  (Searched /\ OnlyModality(Req)) =>
    /\ CountOf(last.query, JoinIm) = (IF Req.input_modality = None THEN 0 ELSE 1)
    /\ CountOf(last.query, JoinOm) = (IF Req.output_modality = None THEN 0 ELSE 1)
    /\ ReturnsExactly(ExpectedByModality(Req))
    /\ (FixtureIngested /\ Req.input_modality = Some(Txt_image)
          /\ Req.output_modality = None)
         => ReturnsExactly({Some(Id_bar)})

FetchFailed(call) ==
  call.op \in IngestOps /\ call.resp.kind \in {"transport", "status"}

\* The call ended by handing back an error: the returned error string of
\* rebuild_database, the printed error of get_openrouter_models (which
\* returns None).
ErrorReported(call) ==
  /\ call.status = "returned"
  /\ IF call.op = "rebuild_database"
     THEN call.ret # None /\ call.ret[1].kind = "error"
     ELSE call.printed # None /\ call.printed[1].kind = "error"

C9_NothingPropagates ==
  (last.op \in IngestOps \cup {"search"} /\ ~FetchFailed(last))
    => last.status = "returned"

\* C10: a second ingestion against the same upstream response leaves the
\* snapshot of the first (same entries, Pricing rows and modality rows,
\* none surviving twice) and reports the same entry count.
C10_RebuildIdempotent ==
  [][(last'.op \in IngestOps /\ last'.again /\ Succeeded(last) /\ Succeeded(last'))
       => /\ store' = store
          /\ last'.ret = last.ret /\ last'.printed = last.printed]_vars

C10_Witness ==
  /\ last.op = "rebuild_database" /\ last.again /\ Succeeded(last)
  /\ Len(store.models) = 2 /\ Len(store.input_modalities) = 3

\* A freshness check has run and is the last thing recorded.
Checked == check.start # 0

\* C11: in any sequence of freshness checks run one after another, at most
\* one ingestion call is made per calendar date, and a check that runs on a
\* date on which a check has already run does nothing.
C11_OneIngestionPerDate ==
  /\ \A d \in Dates : hist.calls[d] <= 1
  /\ (Checked /\ check.prior) => ~check.ran

\* A second check on a date did nothing after the first one ingested.
C11_Witness ==
  /\ Checked
  /\ check.prior
  /\ ~check.ran
  /\ hist.calls[check.start] = 1

\* C12: in a process that stays up across a date change, a freshness check
\* on the new date eventually runs: whenever the date is later than the date
\* on which the last check of the running process ended, a check that starts
\* on that date or later eventually happens.
C12_PeriodicCheck ==
  \A d \in Dates : (boot # 0 /\ check.end < d /\ today = d) ~> (check.start >= d)

\* C13: a check that finds the marker missing or different invokes the
\* ingestion and then sets the marker to the current date, whether the
\* ingestion succeeded or failed; a check on a date whose marker was written
\* after a failed ingestion does not retry it.
C13_MarkerWrittenRegardless ==
  Checked =>
    /\ ~UpToDate(check.found, check.start) => check.ran
    /\ marker = Some(check.end)
    /\ check.priorFailed => ~check.ran

\* A check did nothing on a date whose only ingestion had failed: the
\* marker holds a date on which no ingestion succeeded.
C13_Witness ==
  /\ Checked
  /\ ~check.ran
  /\ check.priorFailed
  /\ check.start \notin hist.okOn
  /\ marker = Some(check.start)

ModalityRows(id) ==
  {i \in 1..Len(store.input_modalities) : store.input_modalities[i].model_id = id}
  \cup {i \in 1..Len(store.output_modalities) : store.output_modalities[i].model_id = id}

\* C14: after an ingestion that completed, every upstream entry has its
\* Model row, an entry with no architecture object has no modality rows, and
\* an entry with no pricing object has no Pricing row.
C14_AbsentSubObjectNoRows ==
  (last.op \in IngestOps /\ Succeeded(last)) =>
    \A i \in 1..Len(last.resp.data) :
      LET e == last.resp.data[i]
      IN /\ Some(e.id) \in IdsOf(store.models)
         /\ e.architecture = None => ModalityRows(Some(e.id)) = {}
         /\ e.pricing = None => ~HasPricingRow(Some(e.id))

\* C15: every search has closed the connection it opened when it is left,
\* on the path where it returns and on the path where the execution raises.
C15_ConnectionClosed == last.op = "search" => last.conn = "closed"

\* C16: for an identifier holding a "/", company is the text before the
\* first "/" and model is the whole remainder, so that company, "/" and
\* model give the identifier back; for an identifier without a "/", or an
\* absent one, both are absent.
C16_CompanyModelSplit ==
  calc.op = "split" =>
    IF calc.id # None /\ Contains(calc.id[1], "/")
    THEN /\ calc.company # None
         /\ calc.model # None
         /\ ~Contains(calc.company[1], "/")
         /\ calc.company[1] \o <<"/">> \o calc.model[1] = calc.id[1]
    ELSE calc.company = None /\ calc.model = None

\* C19: the three price classifiers agree on zero: a stored price counts as
\* free exactly when the price-range filter uses 0 for it, and exactly then
\* the normaliser emits 0.0.
C19_ClassifiersAgree ==
  calc.op = "price" =>
    /\ calc.free <=> calc.filter = 0
    /\ calc.filter = 0 <=> calc.normal = Some(0)

\* What the builder tests of a request: which filters it takes as present,
\* the truth of is_free and of the two inclusivity flags, and whether the
\* price type is "completion".
Shape(r) ==
  <<TruthyStr(r.company), TruthyStr(r.input_modality), TruthyStr(r.output_modality),
    r.is_free # None, TruthyBool(r.is_free), r.min_price # None, r.max_price # None,
    TruthyBool(r.min_price_inclusive), TruthyBool(r.max_price_inclusive),
    TruthyStr(r.name_like), TruthyInt(r.min_context_length),
    r.price_type = Some("completion")>>

\* The supplied values of the filters that have a placeholder, in the order
\* of the placeholders.
SuppliedValues(r) ==
  (IF TruthyStr(r.company) THEN <<r.company[1]>> ELSE <<>>)
    \o (IF TruthyStr(r.input_modality) THEN <<r.input_modality[1]>> ELSE <<>>)
    \o (IF TruthyStr(r.output_modality) THEN <<r.output_modality[1]>> ELSE <<>>)
    \o (IF r.min_price # None THEN <<r.min_price[1]>> ELSE <<>>)
    \o (IF r.max_price # None THEN <<r.max_price[1]>> ELSE <<>>)
    \o (IF TruthyStr(r.name_like)
        THEN <<(<<"%">> \o r.name_like[1] \o <<"%">>)>> ELSE <<>>)
    \o (IF TruthyInt(r.min_context_length) THEN <<r.min_context_length[1]>> ELSE <<>>)

\* The fragments a query text is made of; none is taken from a request.
Fragments == {BaseQuery, KwWhere, KwAnd} \cup Predicates

\* C17: the query text the builder produces is made of fixed fragments only
\* and is the same for every request of the same shape, whatever the values;
\* the supplied values are exactly the bound parameters, one per
\* placeholder, in the order of the placeholders.
C17_TextIndependentOfValues ==
  calc.op = "build" =>
    /\ \A k \in 1..Len(calc.query) : calc.query[k] \in Fragments
    /\ \A r \in Requests \cup ValueRequests :
         Shape(r) = Shape(calc.req) => FinalQuery(BuildQuery(r)) = calc.query
    /\ Len(calc.params) = SumPlaceholders(PredsOf(calc.query))
    /\ calc.params = SuppliedValues(calc.req)

\* A query with three bound values for which another request of the same
\* shape supplies different values.
C17_Witness ==
  /\ calc.op = "build"
  /\ Len(calc.params) >= 3
  /\ \E r \in ValueRequests :
       /\ Shape(r) = Shape(calc.req)
       /\ r.company # calc.req.company
       /\ r.name_like # calc.req.name_like
       /\ r.min_price # calc.req.min_price

\* C18: a search that runs with no rebuild in progress, after a successful
\* rebuild has returned, observes exactly the snapshot that rebuild leaves;
\* a search that runs between the statements of a rebuild may observe a
\* store that is neither the earlier nor the later snapshot (the witness).
C18_QuiescentSearchSeesSnapshot ==
  (last.op = "search" /\ rb.pc = 0 /\ rb.done /\ rb.obs = "quiet") =>
    /\ store = PostSnapshot(rb.pre, rb.resp)
    /\ last.rows = SearchResult(PostSnapshot(rb.pre, rb.resp), Req).rows
    /\ last.status = "returned"

\* Searches that ran between the statements of the last rebuild saw, one
\* the tables dropped, one the tables recreated and empty, neither being the
\* snapshot before or after; the search after the rebuild returned sees its
\* entries.
C18_Witness ==
  /\ last.op = "search"
  /\ rb.pc = 0 /\ rb.done
  /\ rb.obs = "quiet"
  /\ rb.sawDropped /\ rb.sawEmpty
  /\ rb.pre.models # <<>>
  /\ store = PostSnapshot(rb.pre, rb.resp) /\ store.models # <<>>
  /\ last.rows # <<>>

=============================================================================
